---- MODULE Spec2Model ----
(***************************************************************************)
(* Fuel credit backend (src/main.py, src/schemas.py): the credit ledger,   *)
(* the pump sessions and the dispense confirmation.                        *)
(*                                                                         *)
(* Every request handler runs in its own worker; the handlers share the    *)
(* MongoDB collections customer, creditevent, pumpsession and              *)
(* fueltransaction.  One action of the model is one database call of a     *)
(* handler together with the local computation that follows it, so the     *)
(* handlers interleave exactly where the code lets them interleave.        *)
(*                                                                         *)
(* Numbers.  The code computes with Python floats.  Here money is counted  *)
(* in thousandths of the currency unit and fuel in thousandths of a liter, *)
(* one decimal digit below the two digits round(x, 2) keeps, so that       *)
(* rounding is an operation with an effect.  round() is Python's: to the   *)
(* nearest, ties to even.  The binary representation error of floats is    *)
(* not modelled.                                                           *)
(*                                                                         *)
(* Tokens.  os.urandom(6).hex() is taken to be collision free: a new       *)
(* session gets a token no stored session has.                             *)
(*                                                                         *)
(* Store.  find_one, update_one and create_document (an insert into the    *)
(* named collection) are each atomic; nothing spans two of them.           *)
(*                                                                         *)
(* Time.  The clock counts periods of five minutes, the lifetime of a      *)
(* session; two readings within one period are equal.  The requests        *)
(* handled between two ticks follow one another within one second, so the  *)
(* whole second int(datetime.now().timestamp()) of a receipt number is     *)
(* the same for them: it is the clock reading.                             *)
(***************************************************************************)
EXTENDS Integers, FiniteSets, Bags, TLC

\* ------------------------------------------------------------------ bounds
\* concurrent request handlers
NumProcs == 2
\* customers the operator can create
NumCustomers == 1
\* pump sessions that can be issued
MaxSessions == 2
\* the clock runs from 0 to MaxTime
MaxTime == 2
\* top-ups that can be started (credit events are never deleted)
MaxEvents == 2
\* Confirm requests that can pass the verification of their session
MaxConfirms == 2

\* ------------------------------------------------------- program constants
\* thousandths per unit: the fixed-point scale that stands for the floats
Scale == 1000
\* thousandths per hundredth: the step of round(x, 2)
Cent == 10
\* timedelta(minutes=5), in clock periods
TTL == 1

Procs == 1..NumProcs
CustomerIds == 1..NumCustomers
Tokens == 1..MaxSessions
Pumps == {"P1"}

\* FUEL_PRICES, in thousandths
FUEL_PRICES == [G91 |-> 2180, G95 |-> 2330, Diesel |-> 1660]

\* request inputs of the concurrent specification.  Confirm: a grade of the
\* catalog with a positive and a negative volume.  Top-up: a sub-cent and a
\* whole amount
ConfirmInputs == {<<"G91", 15000>>, <<"G91", -15000>>}
AmountInputs == {4, 50000}

\* request inputs of the sequential specification: also a grade outside the
\* catalog, a zero volume, the volume estimated for a balance of 50.00 and a
\* zero amount
GradeInputs == {"G91", "LPG"}
LiterInputs == {-15000, 0, 10000, 15000, 22940}
ConfirmInputsSeq == ({"G91"} \X LiterInputs) \cup {<<"LPG", 10000>>}
AmountInputsSeq == {0, 4, 50000}

\* ------------------------------------------------------------- arithmetic
\* FUEL_PRICES.get(grade): 0 stands for None
PriceFor(grade) == IF grade \in DOMAIN FUEL_PRICES THEN FUEL_PRICES[grade] ELSE 0

\* n / d rounded to the nearest integer, ties to even (d > 0)
RoundHalfEven(n, d) ==
    LET q == n \div d
        r == n % d
    IN  IF 2 * r < d THEN q
        ELSE IF 2 * r > d THEN q + 1
        ELSE IF q % 2 = 0 THEN q ELSE q + 1

\* round(x, 2) of a value x given in thousandths
Round2(x) == RoundHalfEven(x, Cent) * Cent

\* round(float(liters) * float(price), 2)
TotalFor(liters, price) == RoundHalfEven(liters * price, Scale * Cent) * Cent

\* mutant: the quotient is cut off after two decimals instead of rounded
MaxLitersTruncated(balance, price) == ((balance * (Scale \div Cent)) \div price) * Cent

\* round(balance / price, 2)
MaxLitersFor(balance, price) == RoundHalfEven(balance * (Scale \div Cent), price) * Cent

\* ------------------------------------------------------------------ state
VARIABLES
    customers,   \* collection customer: id -> document
    events,      \* collection creditevent: bag of documents
    sessions,    \* collection pumpsession: token -> document
    txs,         \* collection fueltransaction: bag of documents
    now,         \* the clock
    req,         \* per handler: position, arguments and locals
    resp,        \* the response the last step returned, if it returned one
    okCount,     \* history: successful Confirm responses per token
    admitted     \* history: Confirm requests that passed the session's verification

vars == <<customers, events, sessions, txs, now, req, resp, okCount, admitted>>
db == <<customers, events, sessions, txs>>

NoCustomer == [exists |-> FALSE, balance |-> 0, active |-> FALSE]
NoSession == [exists |-> FALSE, customer_id |-> 0, pump_id |-> "", expires_at |-> 0, used |-> FALSE]

\* a handler that is not running.  replay: a Confirm of the token had
\* succeeded when the request arrived; late: the request arrived after the
\* session's expires_at
Idle ==
    [pc |-> "idle", op |-> "none", cust |-> 0, amount |-> 0, token |-> 0,
     grade |-> "", liters |-> 0, pump |-> "", balance |-> 0, total |-> 0,
     new_balance |-> 0, replay |-> FALSE, late |-> FALSE]

\* no response.  wrote: the handler wrote to the database before it answered
NoResp ==
    [op |-> "none", result |-> "", cust |-> 0, amount |-> 0, token |-> 0,
     grade |-> "", liters |-> 0, pump |-> "", balance |-> 0, total |-> 0,
     new_balance |-> 0, max_liters |-> 0, receipt_no |-> 0,
     replay |-> FALSE, late |-> FALSE, wrote |-> FALSE]

\* the response of handler record r
Response(r, result, wrote) ==
    [NoResp EXCEPT !.op = r.op, !.result = result, !.cust = r.cust, !.amount = r.amount,
                   !.token = r.token, !.grade = r.grade, !.liters = r.liters,
                   !.pump = r.pump, !.balance = r.balance, !.total = r.total,
                   !.new_balance = r.new_balance, !.replay = r.replay, !.late = r.late,
                   !.wrote = wrote]

\* a request is taken by the first handler that is not running (the handlers
\* are interchangeable)
Free(p) == req[p].pc = "idle" /\ \A q \in Procs : q < p => req[q].pc # "idle"
Quiet == \A p \in Procs : req[p].pc = "idle"

Init ==
    /\ customers = [c \in CustomerIds |-> NoCustomer]
    /\ events = EmptyBag
    /\ sessions = [t \in Tokens |-> NoSession]
    /\ txs = EmptyBag
    /\ now = 0
    /\ req = [p \in Procs |-> Idle]
    /\ resp = NoResp
    /\ okCount = [t \in Tokens |-> 0]
    /\ admitted = 0

\* the clock advances
Tick ==
    /\ now < MaxTime
    /\ now' = now + 1
    /\ resp' = NoResp
    /\ UNCHANGED <<customers, events, sessions, txs, req, okCount, admitted>>

\* create_customer: inserts Customer(balance=0.0, active=True)
CreateCustomer(c) ==
    /\ ~customers[c].exists
    /\ \A d \in CustomerIds : d < c => customers[d].exists
    /\ customers' = [customers EXCEPT ![c] = [exists |-> TRUE, balance |-> 0, active |-> TRUE]]
    /\ resp' = NoResp
    /\ UNCHANGED <<events, sessions, txs, now, req, okCount, admitted>>

InFlightTopups == Cardinality({p \in Procs : req[p].op = "topup"})

\* topup, lines 103-106: the amount check, _customer_or_404, the new balance
TopupFind(p, c, amount) ==
    /\ Free(p)
    /\ BagCardinality(events) + InFlightTopups < MaxEvents
    /\ LET r == [Idle EXCEPT !.op = "topup", !.cust = c, !.amount = amount]
       IN  IF amount <= 0
           THEN resp' = Response(r, "InvalidAmount", FALSE) /\ UNCHANGED req
           ELSE IF ~customers[c].exists
           THEN resp' = Response(r, "NotFound", FALSE) /\ UNCHANGED req
           ELSE /\ req' = [req EXCEPT ![p] =
                     [r EXCEPT !.pc = "t_update", !.balance = customers[c].balance,
                               !.new_balance = customers[c].balance + amount]]
                /\ resp' = NoResp
    /\ UNCHANGED <<customers, events, sessions, txs, now, okCount, admitted>>

\* topup, line 107: update_one $set balance
TopupUpdate(p) ==
    /\ req[p].pc = "t_update"
    /\ customers' = [customers EXCEPT ![req[p].cust].balance = req[p].new_balance]
    /\ req' = [req EXCEPT ![p].pc = "t_log"]
    /\ resp' = NoResp
    /\ UNCHANGED <<events, sessions, txs, now, okCount, admitted>>

\* topup, lines 110-113: the CreditEvent is inserted, the new balance returned
TopupLog(p) ==
    /\ req[p].pc = "t_log"
    /\ events' = events (+) SetToBag({[customer_id |-> req[p].cust, amount |-> req[p].amount]})
    /\ resp' = Response(req[p], "ok", TRUE)
    /\ req' = [req EXCEPT ![p] = Idle]
    /\ UNCHANGED <<customers, sessions, txs, now, okCount, admitted>>

\* mutant: a new session may take the token of a stored session
ReusedTokens == Tokens

FreshTokens == {t \in Tokens : ~sessions[t].exists}

\* start_pump_session: _customer_or_404, then the PumpSession is inserted
StartSession(p, c, pump) ==
    /\ Free(p)
    /\ LET r == [Idle EXCEPT !.op = "start", !.cust = c, !.pump = pump]
       IN  IF ~customers[c].exists
           THEN resp' = Response(r, "NotFound", FALSE) /\ UNCHANGED sessions
           ELSE /\ FreshTokens # {}
                /\ LET t == CHOOSE u \in FreshTokens : \A v \in FreshTokens : u <= v
                   IN  /\ sessions' = [sessions EXCEPT ![t] =
                            [exists |-> TRUE, customer_id |-> c, pump_id |-> pump,
                             expires_at |-> now + TTL, used |-> FALSE]]
                       /\ resp' = Response([r EXCEPT !.token = t], "ok", TRUE)
    /\ UNCHANGED <<customers, events, txs, now, req, okCount, admitted>>

\* mutant: the estimate reserves the funds it is computed from
CalcLitersReserving(p, c, grade) ==
    /\ Free(p)
    /\ LET r == [Idle EXCEPT !.op = "calc", !.cust = c, !.grade = grade]
       IN  resp' = IF ~customers[c].exists THEN Response(r, "NotFound", FALSE)
                   ELSE IF PriceFor(grade) = 0 THEN Response(r, "InvalidGrade", FALSE)
                   ELSE [Response([r EXCEPT !.balance = customers[c].balance], "ok", FALSE)
                           EXCEPT !.max_liters = MaxLitersFor(customers[c].balance, PriceFor(grade))]
    /\ customers' = IF customers[c].exists /\ PriceFor(grade) # 0
                    THEN [customers EXCEPT ![c].balance = 0]
                    ELSE customers
    /\ UNCHANGED <<events, sessions, txs, now, req, okCount, admitted>>

\* calc_liters
CalcLiters(p, c, grade) ==
    /\ Free(p)
    /\ LET r == [Idle EXCEPT !.op = "calc", !.cust = c, !.grade = grade]
       IN  resp' = IF ~customers[c].exists THEN Response(r, "NotFound", FALSE)
                   ELSE IF PriceFor(grade) = 0 THEN Response(r, "InvalidGrade", FALSE)
                   ELSE [Response([r EXCEPT !.balance = customers[c].balance], "ok", FALSE)
                           EXCEPT !.max_liters = MaxLitersFor(customers[c].balance, PriceFor(grade))]
    /\ UNCHANGED <<customers, events, sessions, txs, now, req, okCount, admitted>>

\* mutant: the used flag is not looked at
VerifySessionIgnoringUsed(ps, clock) ==
    IF ~ps.exists THEN "SessionNotFound"
    ELSE IF ps.expires_at < clock THEN "SessionExpired"
    ELSE ""

\* mutant: the expiry is not looked at
VerifySessionIgnoringExpiry(ps, clock) ==
    IF ~ps.exists THEN "SessionNotFound"
    ELSE IF ps.used THEN "SessionAlreadyUsed"
    ELSE ""

\* confirm_dispense, lines 184-189: what the verification of the session
\* document ps answers at time clock; "" when the session passes
VerifySession(ps, clock) ==
    IF ~ps.exists THEN "SessionNotFound"
    ELSE IF ps.used THEN "SessionAlreadyUsed"
    ELSE IF ps.expires_at < clock THEN "SessionExpired"
    ELSE ""

\* confirm_dispense, lines 183-189: the session is read and verified
ConfirmFind(p, t, grade, liters) ==
    /\ Free(p)
    /\ LET ps == sessions[t]
           r == [Idle EXCEPT !.op = "confirm", !.token = t, !.grade = grade, !.liters = liters,
                             !.replay = (okCount[t] > 0),
                             !.late = (ps.exists /\ now > ps.expires_at)]
           verdict == VerifySession(ps, now)
       IN  IF verdict # ""
           THEN resp' = Response(r, verdict, FALSE) /\ UNCHANGED <<req, admitted>>
           ELSE /\ admitted < MaxConfirms
                /\ req' = [req EXCEPT ![p] =
                     [r EXCEPT !.pc = "c_cust", !.cust = ps.customer_id, !.pump = ps.pump_id]]
                /\ admitted' = admitted + 1
                /\ resp' = NoResp
    /\ UNCHANGED <<customers, events, sessions, txs, now, okCount>>

\* mutant: the balance is not checked
InsufficientNever(total, balance) == FALSE

\* mutant: the comparison is the other way round
InsufficientReversed(total, balance) == balance > total

\* confirm_dispense, line 199: the balance check
Insufficient(total, balance) == total > balance

\* confirm_dispense, line 203
NewBalance(balance, total) == Round2(balance - total)

\* confirm_dispense, lines 191-203: the customer is read, the request priced
\* and the balance checked
ConfirmCust(p) ==
    /\ req[p].pc = "c_cust"
    /\ LET cust == customers[req[p].cust]
           price == PriceFor(req[p].grade)
           total == TotalFor(req[p].liters, price)
           r == [req[p] EXCEPT !.balance = cust.balance, !.total = total]
       IN  IF ~cust.exists
           THEN resp' = Response(req[p], "NotFound", FALSE) /\ req' = [req EXCEPT ![p] = Idle]
           ELSE IF price = 0
           THEN resp' = Response(req[p], "InvalidGrade", FALSE) /\ req' = [req EXCEPT ![p] = Idle]
           ELSE IF Insufficient(total, cust.balance)
           THEN resp' = Response(r, "InsufficientBalance", FALSE) /\ req' = [req EXCEPT ![p] = Idle]
           ELSE /\ req' = [req EXCEPT ![p] =
                     [r EXCEPT !.pc = "c_debit", !.new_balance = NewBalance(cust.balance, total)]]
                /\ resp' = NoResp
    /\ UNCHANGED <<customers, events, sessions, txs, now, okCount, admitted>>

\* FuelTransaction's field constraints: liters gt 0, price_per_liter gt 0,
\* total gt 0 (the grade is a key of FUEL_PRICES here)
ValidTransaction(liters, price, total) == liters > 0 /\ price > 0 /\ total > 0

\* confirm_dispense, lines 204-216: update_one $set balance, then the
\* FuelTransaction is constructed and validated
ConfirmDebit(p) ==
    /\ req[p].pc = "c_debit"
    /\ customers' = [customers EXCEPT ![req[p].cust].balance = req[p].new_balance]
    /\ IF ValidTransaction(req[p].liters, PriceFor(req[p].grade), req[p].total)
       THEN req' = [req EXCEPT ![p].pc = "c_record"] /\ resp' = NoResp
       ELSE resp' = Response(req[p], "ValidationError", TRUE) /\ req' = [req EXCEPT ![p] = Idle]
    /\ UNCHANGED <<events, sessions, txs, now, okCount, admitted>>

\* confirm_dispense, line 217: the FuelTransaction is inserted
ConfirmRecord(p) ==
    /\ req[p].pc = "c_record"
    /\ txs' = txs (+) SetToBag({[token |-> req[p].token, customer_id |-> req[p].cust,
                                 grade |-> req[p].grade, liters |-> req[p].liters,
                                 price_per_liter |-> PriceFor(req[p].grade),
                                 total |-> req[p].total, pump_id |-> req[p].pump,
                                 status |-> "confirmed", receipt_no |-> now]})
    /\ req' = [req EXCEPT ![p].pc = "c_consume"]
    /\ resp' = NoResp
    /\ UNCHANGED <<customers, events, sessions, now, okCount, admitted>>

\* confirm_dispense, lines 220-230: update_one $set used, then the response
ConfirmConsume(p) ==
    /\ req[p].pc = "c_consume"
    /\ sessions' = [sessions EXCEPT ![req[p].token].used = TRUE]
    /\ okCount' = [okCount EXCEPT ![req[p].token] = @ + 1]
    /\ resp' = Response(req[p], "ok", TRUE)
    /\ req' = [req EXCEPT ![p] = Idle]
    /\ UNCHANGED <<customers, events, txs, now, admitted>>

\* the steps of the handlers that are running
Continue ==
    \/ \E p \in Procs : TopupUpdate(p)
    \/ \E p \in Procs : TopupLog(p)
    \/ \E p \in Procs : ConfirmCust(p)
    \/ \E p \in Procs : ConfirmDebit(p)
    \/ \E p \in Procs : ConfirmRecord(p)
    \/ \E p \in Procs : ConfirmConsume(p)

\* Requests arrive at any time and run concurrently.
Next ==
    \/ Tick
    \/ \E c \in CustomerIds : CreateCustomer(c)
    \/ \E p \in Procs, c \in CustomerIds, a \in AmountInputs : TopupFind(p, c, a)
    \/ \E p \in Procs, c \in CustomerIds, pump \in Pumps : StartSession(p, c, pump)
    \/ \E p \in Procs, t \in Tokens, i \in ConfirmInputs : ConfirmFind(p, t, i[1], i[2])
    \/ Continue

Spec == Init /\ [][Next]_vars

\* A request arrives only when no handler is running: the requests run one
\* after the other.
NextSeq ==
    \/ Tick
    \/ \E c \in CustomerIds : CreateCustomer(c)
    \/ Quiet /\ \E p \in Procs, c \in CustomerIds, a \in AmountInputsSeq : TopupFind(p, c, a)
    \/ Quiet /\ \E p \in Procs, c \in CustomerIds, pump \in Pumps : StartSession(p, c, pump)
    \/ Quiet /\ \E p \in Procs, c \in CustomerIds, g \in GradeInputs : CalcLiters(p, c, g)
    \/ Quiet /\ \E p \in Procs, t \in Tokens, i \in ConfirmInputsSeq : ConfirmFind(p, t, i[1], i[2])
    \/ Continue

SpecSeq == Init /\ [][NextSeq]_vars

\* The operator deactivates a customer: the active flag of the stored
\* document becomes false (spec.md, Customer: "never deleted in this core
\* (deactivation only)").  No endpoint of src/main.py does it.
Deactivate(c) ==
    /\ customers[c].exists
    /\ customers[c].active
    /\ customers' = [customers EXCEPT ![c].active = FALSE]
    /\ resp' = NoResp
    /\ UNCHANGED <<events, sessions, txs, now, req, okCount, admitted>>

\* The requests run one after the other and the operator can deactivate a
\* customer at any time.
NextOps ==
    \/ NextSeq
    \/ \E c \in CustomerIds : Deactivate(c)

SpecOps == Init /\ [][NextOps]_vars

\* ------------------------------------------------------------------ claims
\* the fueltransaction documents recorded for the session of token t
TxOf(t) == {x \in BagToSet(txs) : x.token = t}
TxCount(t) == BagCardinality([x \in TxOf(t) |-> txs[x]])

\* a handler that has written the balance of its Confirm
Debited(p) == req[p].op = "confirm" /\ req[p].pc \in {"c_record", "c_consume"}

\* C1: however the Confirm calls that present one token interleave, at most
\* one of them returns success and at most one FuelTransaction is recorded for
\* the session.
C1_OneSuccessPerToken == \A t \in Tokens : okCount[t] <= 1 /\ TxCount(t) <= 1

\* C2: two concurrent Confirm calls on different tokens of one customer, whose
\* totals are each affordable from the balance they read but together exceed
\* it, never both have their debit accepted.
C2_NoDoubleDebit ==
    \A p, q \in Procs :
        ~ /\ p # q
          /\ Debited(p) /\ Debited(q)
          /\ req[p].token # req[q].token
          /\ req[p].cust = req[q].cust
          /\ req[p].balance = req[q].balance
          /\ req[p].total > 0 /\ req[q].total > 0
          /\ req[p].total <= req[p].balance /\ req[q].total <= req[q].balance
          /\ req[p].total + req[q].total > req[p].balance

\* C3: in every reachable state, after any interleaving of top-ups and
\* dispense confirmations, every customer's balance is >= 0.
C3_BalanceNonNegative == \A c \in CustomerIds : customers[c].balance >= 0

\* a top-up and a Confirm have both written the balance and been recorded
C3_Witness ==
    /\ BagCardinality(events) > 0
    /\ BagCardinality(txs) > 0
    /\ \E c \in CustomerIds : customers[c].exists /\ customers[c].balance < 50000

\* C4: no state has a balance debited by a Confirm whose FuelTransaction is
\* not recorded: neither while the Confirm runs nor after it has ended.
C4_NoDebitWithoutTransaction ==
    /\ \A p \in Procs : ~(req[p].op = "confirm" /\ req[p].pc = "c_record")
    /\ ~(resp.op = "confirm" /\ resp.wrote /\ resp.result # "ok")

\* C5: a Confirm with a valid session and a known grade but liters <= 0 is
\* answered InvalidVolume and has written nothing.
C5_InvalidVolumeBeforeAnyWrite ==
    (/\ resp.op = "confirm"
     /\ resp.liters <= 0
     /\ resp.result \notin {"SessionNotFound", "SessionAlreadyUsed", "SessionExpired",
                            "NotFound", "InvalidGrade"})
        => resp.result = "InvalidVolume" /\ ~resp.wrote

\* C6: when the requests run one after the other, a Confirm that presents a
\* token for which a Confirm has succeeded is answered SessionAlreadyUsed, and
\* the session has exactly one FuelTransaction.
C6_SequentialReplay ==
    /\ \A t \in Tokens : okCount[t] <= 1 /\ TxCount(t) <= 1
    /\ (resp.op = "confirm" /\ resp.replay)
          => resp.result = "SessionAlreadyUsed" /\ TxCount(resp.token) = 1

\* a second Confirm of a token has been answered
C6_Witness == resp.op = "confirm" /\ resp.replay /\ okCount[resp.token] = 1

\* C7: the step of a Confirm that finds its total above the balance it reads
\* answers InsufficientBalance, ends the handler and changes no document: the
\* balance, the FuelTransactions and the session are as they were.
C7_InsufficientChangesNothing ==
    [][\A p \in Procs :
          (/\ req[p].pc = "c_cust"
           /\ req'[p].pc # "c_cust"
           /\ PriceFor(req[p].grade) # 0
           /\ TotalFor(req[p].liters, PriceFor(req[p].grade)) > customers[req[p].cust].balance)
             => /\ resp'.result = "InsufficientBalance"
                /\ ~resp'.wrote
                /\ req'[p] = Idle
                /\ UNCHANGED db]_vars

\* a Confirm has been refused for its total and its session is still unused
C7_Witness ==
    /\ resp.op = "confirm"
    /\ resp.result = "InsufficientBalance"
    /\ resp.total > resp.balance
    /\ ~sessions[resp.token].used
    /\ TxCount(resp.token) = 0

\* C8 as stated: a Confirm presented after the session's expires_at is
\* answered SessionExpired, whatever the used flag.
C8_ExpiredWhateverUsed ==
    (resp.op = "confirm" /\ resp.late) => resp.result = "SessionExpired"

\* C8 amended: a Confirm presented after the session's expires_at is answered
\* SessionExpired when the session is unused and SessionAlreadyUsed when it is
\* used; it never succeeds.
C8_ExpiredWhenUnused ==
    (resp.op = "confirm" /\ resp.late)
        => resp.result = (IF sessions[resp.token].used
                          THEN "SessionAlreadyUsed" ELSE "SessionExpired")

\* an unused session has been presented after its expires_at
C8_Witness ==
    /\ resp.op = "confirm"
    /\ resp.late
    /\ ~sessions[resp.token].used
    /\ now > sessions[resp.token].expires_at

\* C9: a successful Confirm that ran without interference computed
\* total = round(liters x price, 2), returned and stored
\* newBalance = balance_before - total, set the session's used flag and
\* recorded exactly one confirmed FuelTransaction with the session's customer
\* and pump, the grade, liters, price and total.
C9_SuccessfulConfirm ==
    (resp.op = "confirm" /\ resp.result = "ok")
        => /\ 2 * (resp.total * Scale - resp.liters * PriceFor(resp.grade))
                \in -(Scale * Cent) .. Scale * Cent
           /\ resp.total % Cent = 0
           /\ resp.new_balance = resp.balance - resp.total
           /\ customers[resp.cust].balance = resp.new_balance
           /\ sessions[resp.token].used
           /\ TxCount(resp.token) = 1
           /\ \A x \in TxOf(resp.token) :
                /\ x.customer_id = sessions[resp.token].customer_id
                /\ x.pump_id = sessions[resp.token].pump_id
                /\ x.grade = resp.grade
                /\ x.liters = resp.liters
                /\ x.price_per_liter = PriceFor(resp.grade)
                /\ x.total = resp.total
                /\ x.status = "confirmed"

\* C10 as stated: the estimate for balance 50.00 and G91 at 2.18 is 22.93.
C10_EstimateAsStated ==
    (resp.op = "calc" /\ resp.result = "ok" /\ resp.grade = "G91" /\ resp.balance = 50000)
        => resp.max_liters = 22930

\* C10 amended: the estimate is balance / price rounded to the nearest
\* hundredth of a liter, which for balance 50.00 and G91 at 2.18 is 22.94.
C10_EstimateRounded ==
    (resp.op = "calc" /\ resp.result = "ok")
        => /\ resp.max_liters % Cent = 0
           /\ 2 * (resp.max_liters * PriceFor(resp.grade) - resp.balance * Scale)
                \in -(PriceFor(resp.grade) * Cent) .. PriceFor(resp.grade) * Cent
           /\ (resp.grade = "G91" /\ resp.balance = 50000) => resp.max_liters = 22940

\* the estimate for balance 50.00 and G91 has been returned
C10_Witness ==
    resp.op = "calc" /\ resp.result = "ok" /\ resp.grade = "G91" /\ resp.balance = 50000

\* C11: a step that answers EstimateLiters, with an estimate, NotFound or
\* InvalidGrade, changes no balance and creates no CreditEvent, PumpSession or
\* FuelTransaction.
C11_EstimateChangesNothing ==
    [][resp'.op = "calc" => UNCHANGED <<customers, events, sessions, txs>>]_vars

\* an estimate has been returned for a funded customer, whose balance is
\* what it was
C11_Witness ==
    /\ resp.op = "calc"
    /\ resp.result = "ok"
    /\ resp.max_liters > 0
    /\ BagCardinality(events) > 0
    /\ customers[resp.cust].balance = resp.balance

\* the sum of the amounts of the CreditEvents in the set S, each counted as
\* often as it is stored
RECURSIVE SumAmounts(_)
SumAmounts(S) ==
    IF S = {} THEN 0
    ELSE LET e == CHOOSE x \in S : TRUE
         IN  events[e] * e.amount + SumAmounts(S \ {e})

\* the sum of the totals of the FuelTransactions in the set S, each counted
\* as often as it is stored
RECURSIVE SumTotals(_)
SumTotals(S) ==
    IF S = {} THEN 0
    ELSE LET x == CHOOSE y \in S : TRUE
         IN  txs[x] * x.total + SumTotals(S \ {x})

\* what customer c was credited and what c's confirmed transactions cost
Credited(c) == SumAmounts({e \in BagToSet(events) : e.customer_id = c})
Dispensed(c) ==
    SumTotals({x \in BagToSet(txs) : x.customer_id = c /\ x.status = "confirmed"})

\* C12: no update is lost: whenever no Credit and no Confirm is in progress,
\* each customer's balance is the sum of its CreditEvent amounts minus the sum
\* of its confirmed FuelTransaction totals.
C12_NoLostUpdate ==
    Quiet => \A c \in CustomerIds :
                 customers[c].exists => customers[c].balance = Credited(c) - Dispensed(c)

\* C13: a Credit's balance increase and its CreditEvent are recorded
\* together: no state has the balance of a Credit written and its CreditEvent
\* not yet stored, and a Credit that has succeeded has its CreditEvent stored.
C13_CreditRecordedTogether ==
    /\ \A p \in Procs : ~(req[p].op = "topup" /\ req[p].pc = "t_log")
    /\ (resp.op = "topup" /\ resp.result = "ok")
           => BagIn([customer_id |-> resp.cust, amount |-> resp.amount], events)

\* C14: a session can be consumed only while now < expires_at: a Confirm that
\* arrives when now = expires_at (or later) is not let past the session
\* checks, and the step that receives it changes no stored state.
C14_ExpiredAtExpiry ==
    [][\A p \in Procs :
          (/\ req[p].pc = "idle"
           /\ req'[p].op = "confirm"
           /\ req'[p].pc = "c_cust")
             => now < sessions[req'[p].token].expires_at]_vars

\* C15: receipt numbers are unique per transaction: no FuelTransaction is
\* stored twice and no two FuelTransactions carry the same receipt number,
\* also when they were confirmed within the same second.
C15_ReceiptsUnique ==
    \A x, y \in BagToSet(txs) :
        /\ txs[x] = 1
        /\ x # y => x.receipt_no # y.receipt_no

\* C16: every stored balance is a whole number of cents, after any sequence
\* of Credit and Confirm.
C16_BalanceWholeCents ==
    \A c \in CustomerIds : customers[c].balance % Cent = 0

\* C17: the used flag is monotonic and a consumed session is terminal: no
\* step resets the flag of a used session or deletes the session, and a
\* Confirm that presents a used token is not let past the session checks and
\* is answered SessionAlreadyUsed.
C17_UsedMonotonic ==
    [][/\ \A t \in Tokens :
            sessions[t].used => sessions'[t].exists /\ sessions'[t].used
       /\ \A p \in Procs :
            (req[p].pc = "idle" /\ req'[p].op = "confirm" /\ req'[p].pc = "c_cust")
                => ~sessions[req'[p].token].used
       /\ (resp'.op = "confirm" /\ req' = req /\ sessions[resp'.token].used)
            => resp'.result = "SessionAlreadyUsed"]_vars

\* a consumed session has been presented again while another Confirm was
\* running, and was refused
C17_Witness ==
    /\ resp.op = "confirm"
    /\ resp.result = "SessionAlreadyUsed"
    /\ sessions[resp.token].used
    /\ TxCount(resp.token) >= 1
    /\ ~Quiet

\* C18: Issue stores a session and returns a token only for a customer that
\* exists and is active: a StartSession answered with a token found the
\* customer stored and active.
C18_IssueOnlyForActive ==
    (resp.op = "start" /\ (resp.result = "ok" \/ resp.wrote))
        => customers[resp.cust].exists /\ customers[resp.cust].active

\* C19: only Credit increases a balance: a Confirm that has written the
\* balance, whatever its liters, has not left it higher than the balance it
\* read.
C19_ConfirmNeverIncreases ==
    (resp.op = "confirm" /\ resp.wrote)
        => /\ resp.new_balance <= resp.balance
           /\ customers[resp.cust].balance <= resp.balance

\* C20: the estimate is affordable: a Confirm whose liters are the positive
\* estimate EstimateLiters gives for the grade and for the balance the Confirm
\* reads is not answered InsufficientBalance.
C20_EstimateAffordable ==
    (/\ resp.op = "confirm"
     /\ PriceFor(resp.grade) # 0
     /\ resp.liters > 0
     /\ resp.liters = MaxLitersFor(resp.balance, PriceFor(resp.grade)))
        => resp.result # "InsufficientBalance"
====
